---- MODULE Spec2Model ----
(***************************************************************************)
(* Distributed utilities of graphstorm:                                    *)
(*   model/utils.py        TopKList, save_embeddings (get_data_range),     *)
(*                         all_gather, save_model, load_model,             *)
(*                         save_opt_state, load_opt_state,                 *)
(*                         save_sparse_embeds, load_sparse_embeds,         *)
(*                         remove_saved_models                             *)
(*   dataloading/utils.py  trim_data, dist_sum                             *)
(*   inference/ep_infer.py GSgnnEdgePredictionInfer.infer                  *)
(* Each component is a state machine of its own (SpecTopK, SpecRange,      *)
(* SpecGather, SpecTrim, SpecSave, SpecInfer, SpecCkpt, SpecOpt, SpecSum,  *)
(* SpecSparse); the variables of the other components stay at their idle   *)
(* value.                                                                  *)
(***************************************************************************)
EXTENDS Integers, Sequences, FiniteSets, TLC

VARIABLES
    top_k,        \* TopKList.top_k
    toplist,      \* TopKList.toplist
    ins,          \* the last insert call: arguments, list before it, returned pair
    rq,           \* get_data_range: the closure's num_embs and world_size
    ranges,       \* get_data_range: (start, end) returned to each rank so far
    g_world_size, \* all_gather: dist.get_world_size()
    g_worker,     \* all_gather: per rank, the locals of its call and where it stands
    t_world_size, \* trim_data: number of processes in the group
    t_worker,     \* trim_data: per rank, the arguments and locals of its call
    s_world_size, \* save_embeddings: the world_size argument
    s_arg,        \* save_embeddings: the embeddings argument (one tensor or a dict)
    s_worker,     \* save_embeddings: per process, local_rank and the locals of its call
    s_dir,        \* the files under model_path: what each holds and who wrote it
    i_world_size, \* infer: get_world_size()
    i_cfg,        \* infer: evaluator, label data and target edge type of the job
    i_worker,     \* infer: per rank, its arguments and how far its call has come
    i_dir,        \* infer: the files under the save paths and who wrote them
    c_path,       \* checkpoint: whether model_path exists
    c_files,      \* checkpoint: the files under model_path and what they hold
    c_modules,    \* checkpoint: the parameters of the gnn, embed and decoder modules
    c_call,       \* checkpoint: the last call, its arguments and its outcome
    d_world_size, \* dist_sum: the number of ranks
    d_worker,     \* dist_sum: the call of every rank
    e_num_embs,   \* sparse embeddings: embed_layer.g.number_of_nodes(ntype)
    e_table,      \* sparse embeddings: the rows of sparse_emb._tensor
    e_path,       \* sparse embeddings: whether model_path exists
    e_files,      \* sparse embeddings: the files under model_path
    e_call        \* sparse embeddings: the call in progress or the last one, and its locals

varsTopK == <<top_k, toplist, ins>>
varsRange == <<rq, ranges>>
varsGather == <<g_world_size, g_worker>>
varsTrim == <<t_world_size, t_worker>>
varsSave == <<s_world_size, s_arg, s_worker, s_dir>>
varsInfer == <<i_world_size, i_cfg, i_worker, i_dir>>
varsCkpt == <<c_path, c_files, c_modules, c_call>>
varsSum == <<d_world_size, d_worker>>
varsSparse == <<e_num_embs, e_table, e_path, e_files, e_call>>
vars == <<top_k, toplist, ins, rq, ranges, g_world_size, g_worker, t_world_size, t_worker,
          s_world_size, s_arg, s_worker, s_dir,
          i_world_size, i_cfg, i_worker, i_dir,
          c_path, c_files, c_modules, c_call,
          d_world_size, d_worker,
          e_num_embs, e_table, e_path, e_files, e_call>>

\* ------------------------------------------------------------------ bounds

MaxTopK == 3
NumVals == 3
MaxEmbs == 12
MaxWorld == 3
MaxLast == 2
MaxLead == 2
MaxNids == 3
MaxRows == 4
MaxInferWorld == 2
MaxSize == 2
MaxBatches == 1

Min2(a, b) == IF a < b THEN a ELSE b
Max2(a, b) == IF a > b THEN a ELSE b

\* --------------------------------------------------------- Python slicing

\* The position a slice bound i denotes in a sequence of length n:
\* negative bounds count from the end, and every bound is clamped to 0..n.
PyIndex(i, n) == IF i < 0 THEN Max2(n + i, 0) ELSE Min2(i, n)

\* s[lo:hi] (0-based, hi exclusive).
PySlice(s, lo, hi) ==
    LET a == PyIndex(lo, Len(s))
        b == PyIndex(hi, Len(s))
    IN  IF a < b THEN SubSeq(s, a + 1, b) ELSE <<>>

\* s[:hi]
PySliceTo(s, hi) == PySlice(s, 0, hi)

\* s[lo:]
PySliceFrom(s, lo) == PySlice(s, lo, Len(s))

\* =================================================================== TopKList

Vals == 1..NumVals
Ranks == 1..(MaxTopK + 1)

NoInsert ==
    [rank |-> 0, val |-> 0, before |-> <<>>, insert_success |-> FALSE, return_val |-> 0]

RejectInsertButStore(list, val) ==
    [toplist |-> Append(list, val), insert_success |-> FALSE, return_val |-> val]

\* the branch of a rejected rank: the list is not touched
RejectInsert(list, val) ==
    [toplist |-> list, insert_success |-> FALSE, return_val |-> val]

\* if (rank - 1) >= self.top_k
Rejected(rank, k) == (rank - 1) >= k

InsertFullKeepTail(list, rank, val) ==
    [toplist |-> PySliceTo(list, rank - 1) \o <<val>> \o PySliceFrom(list, rank - 1),
     insert_success |-> TRUE,
     return_val |-> list[Len(list)]]

InsertFullOverwrite(list, rank, val) ==
    [toplist |-> PySliceTo(list, rank - 1) \o <<val>> \o PySliceFrom(list, rank),
     insert_success |-> TRUE,
     return_val |-> list[Len(list)]]

\* the branch of a full list: the tail is returned and dropped
InsertFull(list, rank, val) ==
    [toplist |-> PySliceTo(list, rank - 1) \o <<val>> \o PySlice(list, rank - 1, -1),
     insert_success |-> TRUE,
     return_val |-> list[Len(list)]]

InsertNotFullSwapped(list, rank, val) ==
    [toplist |-> PySliceFrom(list, rank - 1) \o <<val>> \o PySliceTo(list, rank - 1),
     insert_success |-> TRUE,
     return_val |-> val]

InsertNotFullAppend(list, rank, val) ==
    [toplist |-> list \o <<val>>, insert_success |-> TRUE, return_val |-> val]

\* the branch of a list that is not full
InsertNotFull(list, rank, val) ==
    [toplist |-> PySliceTo(list, rank - 1) \o <<val>> \o PySliceFrom(list, rank - 1),
     insert_success |-> TRUE,
     return_val |-> val]

\* TopKList.insert: the new list and the returned pair
TopKInsert(list, k, rank, val) ==
    IF Rejected(rank, k)
    THEN RejectInsert(list, val)
    ELSE IF Len(list) = k
         THEN InsertFull(list, rank, val)
         ELSE InsertNotFull(list, rank, val)

IdleTopK == top_k = 0 /\ toplist = <<>> /\ ins = NoInsert

\* TopKList.__init__
InitTopK == top_k \in 0..MaxTopK /\ toplist = <<>> /\ ins = NoInsert

insert(rank, val) ==
    LET r == TopKInsert(toplist, top_k, rank, val)
    IN  /\ toplist' = r.toplist
        /\ ins' = [rank |-> rank, val |-> val, before |-> toplist,
                   insert_success |-> r.insert_success, return_val |-> r.return_val]
        /\ UNCHANGED <<top_k, varsRange, varsGather, varsTrim, varsSave, varsInfer, varsCkpt, varsSum, varsSparse>>

\* ============================================================= get_data_range

NoRequest == [num_embs |-> 0, world_size |-> 1]

start_of(num_embs, local_rank, world_size) == local_rank * (num_embs \div world_size)

end_of_no_remainder(num_embs, local_rank, world_size) ==
    (local_rank + 1) * (num_embs \div world_size)

end_of(num_embs, local_rank, world_size) ==
    IF local_rank + 1 = world_size
    THEN num_embs
    ELSE (local_rank + 1) * (num_embs \div world_size)

\* save_embeddings.get_data_range, with the closure's local_rank and world_size
get_data_range(num_embs, local_rank, world_size) ==
    [start |-> start_of(num_embs, local_rank, world_size),
     end |-> end_of(num_embs, local_rank, world_size)]

IdleRange == rq = NoRequest /\ ranges = <<>>

InitRange ==
    /\ rq \in [num_embs : 0..MaxEmbs, world_size : 1..MaxWorld]
    /\ ranges = <<>>

\* rank Len(ranges) asks for its range (ranks ask in order 0, 1, ...)
AssignRange ==
    /\ Len(ranges) < rq.world_size
    /\ ranges' = Append(ranges, get_data_range(rq.num_embs, Len(ranges), rq.world_size))
    /\ UNCHANGED <<rq, varsTopK, varsGather, varsTrim, varsSave, varsInfer, varsCkpt, varsSum, varsSparse>>

\* ================================================================= all_gather

GRanks == 0..(g_world_size - 1)

\* A tensor is its shape and, along the last dimension, its columns: cols[j]
\* stands for the slice [..., j-1] of the tensor.
Tensor(shape, cols) == [shape |-> shape, cols |-> cols]

NoSize == -1

LastDim(shape) == shape[Len(shape)]

WithLast(shape, n) == [shape EXCEPT ![Len(shape)] = n]

\* the content worker w holds in column j
Cell(w, j) == <<w, j>>

\* what uninitialised memory may hold
PadVals == {<<-1, 0>>, <<-1, 1>>}

\* th.Tensor(size=padding_shape): uninitialised, here filled with v
Uninit(shape, v) == Tensor(shape, [j \in 1..LastDim(shape) |-> v])

\* th.cat((a, b), dim=-1)
CatLast(a, b) ==
    Tensor(WithLast(a.shape, LastDim(a.shape) + LastDim(b.shape)), a.cols \o b.cols)

\* tensr[..., :size]
TruncLast(t, size) ==
    LET c == PySliceTo(t.cols, size) IN Tensor(WithLast(t.shape, Len(c)), c)

NeverSingle(ws) == FALSE

\* if world_size == 1
IsSingle(ws) == ws = 1

HasDim1(shape) == Len(shape) >= 2

\* tensor.shape[1]
ReportedSize(shape) == shape[2]

SeqMax(q) == CHOOSE m \in {q[i] : i \in 1..Len(q)} : \A i \in 1..Len(q) : q[i] <= m

NewWorker(t) ==
    [pc |-> "start", input |-> t, tensor |-> t, local_size |-> NoSize,
     size_list |-> <<>>, placeholder_shape |-> <<>>, data_list |-> <<>>, ncoll |-> 0]

LeadShapes ==
    {<<>>} \cup {<<a>> : a \in 1..MaxLead}
           \cup {<<a, b>> : a \in 1..MaxLead, b \in 1..MaxLead}

IdleGather == g_world_size = 0 /\ g_worker = <<>>

\* every rank holds a tensor of the same number of dimensions; only the size
\* of the last dimension differs between ranks
InitGather ==
    /\ g_world_size \in 1..MaxWorld
    /\ \E lead \in LeadShapes :
       \E last \in [GRanks -> 0..MaxLast] :
          g_worker = [w \in GRanks |->
              NewWorker(Tensor(lead \o <<last[w]>>,
                               [j \in 1..last[w] |-> Cell(w, j)]))]

\* all_gather up to the first collective
GatherStart(w) ==
    /\ g_worker[w].pc = "start"
    /\ LET me == g_worker[w] IN
       IF IsSingle(g_world_size)
       THEN g_worker' = [g_worker EXCEPT ![w].pc = "done",
                                         ![w].data_list = <<me.tensor>>]
       ELSE IF ~HasDim1(me.tensor.shape)
       THEN g_worker' = [g_worker EXCEPT ![w].pc = "error"]
       ELSE g_worker' = [g_worker EXCEPT ![w].pc = "size_gather",
                                         ![w].local_size = ReportedSize(me.tensor.shape),
                                         ![w].ncoll = me.ncoll + 1]
    /\ UNCHANGED <<g_world_size, varsTopK, varsRange, varsTrim, varsSave, varsInfer, varsCkpt, varsSum, varsSparse>>

\* dist.all_gather(size_list, local_size) returns once every rank has called it;
\* the rank then pads its tensor and calls dist.all_gather(tensor_list, tensor)
SizeGatherReturn(w) ==
    /\ g_worker[w].pc = "size_gather"
    /\ \A v \in GRanks : g_worker[v].local_size # NoSize
    /\ LET me == g_worker[w]
           size_list == [i \in 1..g_world_size |-> g_worker[i - 1].local_size]
           max_size == SeqMax(size_list)
           placeholder_shape == WithLast(me.tensor.shape, max_size)
           padding_shape == WithLast(me.tensor.shape, max_size - me.local_size)
       IN  \E v \in PadVals :
             g_worker' = [g_worker EXCEPT
                ![w].pc = "data_gather",
                ![w].size_list = size_list,
                ![w].placeholder_shape = placeholder_shape,
                ![w].tensor = IF me.local_size # max_size
                              THEN CatLast(me.tensor, Uninit(padding_shape, v))
                              ELSE me.tensor,
                ![w].ncoll = me.ncoll + 1]
    /\ UNCHANGED <<g_world_size, varsTopK, varsRange, varsTrim, varsSave, varsInfer, varsCkpt, varsSum, varsSparse>>

AllContributed == \A v \in GRanks : g_worker[v].pc \in {"data_gather", "done", "error"}
                                       /\ g_worker[v].size_list # <<>>

\* the transport gathers tensors of one shape only
ShapesMatch(w) ==
    \A v \in GRanks : g_worker[v].tensor.shape = g_worker[w].placeholder_shape

\* dist.all_gather(tensor_list, tensor) returns; the padding is cut off
DataGatherReturn(w) ==
    /\ g_worker[w].pc = "data_gather"
    /\ AllContributed
    /\ ShapesMatch(w)
    /\ LET me == g_worker[w]
           tensor_list == [i \in 1..g_world_size |-> g_worker[i - 1].tensor]
       IN  g_worker' = [g_worker EXCEPT
              ![w].pc = "done",
              ![w].data_list = [i \in 1..g_world_size |->
                                   TruncLast(tensor_list[i], me.size_list[i])]]
    /\ UNCHANGED <<g_world_size, varsTopK, varsRange, varsTrim, varsSave, varsInfer, varsCkpt, varsSum, varsSparse>>

\* dist.all_gather(tensor_list, tensor) on tensors of different shapes: the
\* transport aborts the call (or the rank hangs in it: this step is not taken)
DataGatherAbort(w) ==
    /\ g_worker[w].pc = "data_gather"
    /\ AllContributed
    /\ ~ShapesMatch(w)
    /\ g_worker' = [g_worker EXCEPT ![w].pc = "error"]
    /\ UNCHANGED <<g_world_size, varsTopK, varsRange, varsTrim, varsSave, varsInfer, varsCkpt, varsSum, varsSparse>>

\* ================================================================== trim_data

TRanks == 0..(t_world_size - 1)

NoCount == -1

\* nids.numel() of a one-dimensional tensor
numel(nids) == Len(nids)

\* nids.shape[0]
shape0(nids) == Len(nids)

SetMin(S) == CHOOSE m \in S : \A x \in S : m <= x

ReduceToZero(S) == 0

\* dist.all_reduce(num_nodes, dist.ReduceOp.MIN) over what the ranks contributed
ReduceMin(S) == SetMin(S)

TrimSliceTail(nids, n) == PySliceFrom(nids, Len(nids) - n)

\* nids[:min_num_nodes]
TrimSlice(nids, n) == PySliceTo(nids, n)

IdleTrim == t_world_size = 0 /\ t_worker = <<>>

InitTrim ==
    /\ t_world_size \in 1..MaxWorld
    /\ \E cnt \in [TRanks -> 0..MaxNids] :
       \E dev \in [TRanks -> {"cuda", "cpu"}] :
          t_worker = [w \in TRanks |->
              [pc |-> "start",
               nids |-> [i \in 1..cnt[w] |-> <<w, i>>],
               device |-> dev[w],
               num_nodes |-> NoCount,
               new_nids |-> <<>>]]

\* trim_data up to the collective: the count is moved to the device, which has
\* to be a CUDA device, and handed to all_reduce
TrimStart(w) ==
    /\ t_worker[w].pc = "start"
    /\ IF t_worker[w].device = "cuda"
       THEN t_worker' = [t_worker EXCEPT ![w].pc = "all_reduce",
                                         ![w].num_nodes = numel(t_worker[w].nids)]
       ELSE t_worker' = [t_worker EXCEPT ![w].pc = "error"]
    /\ UNCHANGED <<t_world_size, varsTopK, varsRange, varsGather, varsSave, varsInfer, varsCkpt, varsSum, varsSparse>>

\* all_reduce returns once every rank has called it; the ids are cut to the
\* minimum and the length is asserted
TrimReturn(w) ==
    /\ t_worker[w].pc = "all_reduce"
    /\ \A v \in TRanks : t_worker[v].num_nodes # NoCount
    /\ LET me == t_worker[w]
           min_num_nodes == ReduceMin({t_worker[v].num_nodes : v \in TRanks})
           nids_length == shape0(me.nids)
           new_nids == IF min_num_nodes < nids_length
                       THEN TrimSlice(me.nids, min_num_nodes)
                       ELSE me.nids
       IN  IF shape0(new_nids) = min_num_nodes
           THEN t_worker' = [t_worker EXCEPT ![w].pc = "done",
                                             ![w].new_nids = new_nids]
           ELSE t_worker' = [t_worker EXCEPT ![w].pc = "error"]
    /\ UNCHANGED <<t_world_size, varsTopK, varsRange, varsGather, varsSave, varsInfer, varsCkpt, varsSum, varsSparse>>

\* ============================================================ save_embeddings

SProcs == 0..(s_world_size - 1)

\* the names a dict of embeddings may carry, in the dict's order
NameLists == {<<>>, <<"n0">>, <<"n0", "n1">>}

\* An entry of the argument: its name ("" for the single unnamed tensor), its
\* type (a DistTensor or LazyDistTensor is "dist", any other tensor "local")
\* and its length.
Entry(name, kind, n) == [name |-> name, kind |-> kind, n |-> n]

\* Row i of entry k: a distributed tensor is the same logical tensor on every
\* rank (owner -1), any other tensor belongs to the process that passes it.
Rows(k, e, proc) ==
    [i \in 1..e.n |-> <<k, IF e.kind = "dist" THEN -1 ELSE proc, i - 1>>]

\* f'{name}_emb.part{local_rank}.bin'
NamedPath(name, local_rank) == name \o "_emb.part" \o ToString(local_rank) \o ".bin"

\* f'emb.part{local_rank}.bin'
UnnamedPath(local_rank) == "emb.part" \o ToString(local_rank) \o ".bin"

InfoPath == "emb_info.json"

\* assert local_rank < world_size
RankAccepted(local_rank, ws) == local_rank < ws

SliceWhole(rows, local_rank, ws) == rows

\* embeddings[start:end] with (start, end) = get_data_range(len(embeddings))
SliceOfRank(rows, local_rank, ws) ==
    LET r == get_data_range(Len(rows), local_rank, ws)
    IN  PySlice(rows, r.start, r.end)

\* only distributed tensors are cut to the range of the rank
Sliced(k, e, proc, local_rank, ws) ==
    IF e.kind = "dist"
    THEN SliceOfRank(Rows(k, e, proc), local_rank, ws)
    ELSE Rows(k, e, proc)

EveryRankWritesInfo(local_rank) == TRUE

\* if local_rank == 0
WritesInfo(local_rank) == local_rank = 0

\* th.save / f.write: the file holds data, whatever it held before
WriteFile(dir, path, data, local_rank) ==
    LET old == IF path \in DOMAIN dir THEN dir[path].by ELSE <<>>
    IN  [p \in DOMAIN dir \cup {path} |->
            IF p = path THEN [data |-> data, by |-> Append(old, local_rank)]
            ELSE dir[p]]

NoDir == [p \in {} |-> 0]

RankAssignments(ws) ==
    LET id == [w \in 0..(ws - 1) |-> w]
    IN  {id} \cup {[id EXCEPT ![ws - 1] = r] : r \in {-1, ws}}

IdleSave ==
    /\ s_world_size = 0
    /\ s_arg = [isdict |-> FALSE, entries |-> <<>>]
    /\ s_worker = <<>>
    /\ s_dir = NoDir

InitSave ==
    /\ s_world_size \in 1..MaxWorld
    /\ \/ \E kind \in {"dist", "local"}, n \in 0..MaxRows :
             s_arg = [isdict |-> FALSE, entries |-> <<Entry("", kind, n)>>]
       \/ \E names \in NameLists :
          \E kind \in [1..Len(names) -> {"dist", "local"}] :
          \E n \in [1..Len(names) -> 0..MaxRows] :
             s_arg = [isdict |-> TRUE,
                      entries |-> [k \in 1..Len(names) |->
                                      Entry(names[k], kind[k], n[k])]]
    /\ \E lr \in RankAssignments(s_world_size) :
          s_worker = [w \in SProcs |->
              [pc |-> "start", local_rank |-> lr[w], embeddings |-> <<>>,
               emb_info |-> [emb_name |-> [null |-> FALSE, names |-> <<>>],
                             world_size |-> 0],
               saved |-> 0]]
    /\ s_dir = NoDir

\* save_embeddings up to the first file: the rank is checked and the
\* distributed tensors are cut to the range of the rank
SaveBegin(w) ==
    /\ s_worker[w].pc = "start"
    /\ LET me == s_worker[w] IN
       IF ~RankAccepted(me.local_rank, s_world_size)
       THEN s_worker' = [s_worker EXCEPT ![w].pc = "error"]
       ELSE s_worker' = [s_worker EXCEPT
               ![w].pc = IF s_arg.isdict /\ s_arg.entries = <<>> THEN "info" ELSE "save",
               ![w].embeddings =
                   [k \in 1..Len(s_arg.entries) |->
                       Sliced(k, s_arg.entries[k], w, me.local_rank, s_world_size)],
               ![w].emb_info = [emb_name |-> [null |-> FALSE, names |-> <<>>],
                                world_size |-> s_world_size]]
    /\ UNCHANGED <<s_world_size, s_arg, s_dir, varsTopK, varsRange, varsGather, varsTrim, varsInfer, varsCkpt, varsSum, varsSparse>>

\* th.save of the next tensor into the file of this rank
SaveShard(w) ==
    /\ s_worker[w].pc = "save"
    /\ LET me == s_worker[w]
           k == me.saved + 1
       IN  IF s_arg.isdict
           THEN /\ s_dir' = WriteFile(s_dir, NamedPath(s_arg.entries[k].name, me.local_rank),
                                      me.embeddings[k], me.local_rank)
                /\ s_worker' = [s_worker EXCEPT
                      ![w].saved = k,
                      ![w].emb_info.emb_name.names =
                          Append(me.emb_info.emb_name.names, s_arg.entries[k].name),
                      ![w].pc = IF k = Len(s_arg.entries) THEN "info" ELSE "save"]
           ELSE /\ s_dir' = WriteFile(s_dir, UnnamedPath(me.local_rank),
                                      me.embeddings[1], me.local_rank)
                /\ s_worker' = [s_worker EXCEPT
                      ![w].saved = 1,
                      ![w].emb_info.emb_name = [null |-> TRUE, names |-> <<>>],
                      ![w].pc = "info"]
    /\ UNCHANGED <<s_world_size, s_arg, varsTopK, varsRange, varsGather, varsTrim, varsInfer, varsCkpt, varsSum, varsSparse>>

\* rank 0 writes emb_info.json; the call returns
SaveInfo(w) ==
    /\ s_worker[w].pc = "info"
    /\ s_dir' = IF WritesInfo(s_worker[w].local_rank)
                THEN WriteFile(s_dir, InfoPath, s_worker[w].emb_info, s_worker[w].local_rank)
                ELSE s_dir
    /\ s_worker' = [s_worker EXCEPT ![w].pc = "done"]
    /\ UNCHANGED <<s_world_size, s_arg, varsTopK, varsRange, varsGather, varsTrim, varsInfer, varsCkpt, varsSum, varsSparse>>

\* ===================================================================== infer

IRanks == 0..(i_world_size - 1)

NtypeOrder == <<"n0", "n1">>

InSet(S, x) == x \in S

\* sorted(target_ntypes), target_ntypes holding etype[0] and etype[2]
SortedTargetNtypes(etype) ==
    LET target_ntypes == {etype[1], etype[3]}
        keep(x) == InSet(target_ntypes, x)
    IN  SelectSeq(NtypeOrder, keep)

NeverRejects(cfg) == FALSE

\* do_eval and loader.data.labels is None: the assertion fails
RejectsLabels(cfg) == cfg.evaluator /\ ~cfg.labels

Op(name, k) == [op |-> name, k |-> k]

\* the calls of save_gsgnn_embeddings: one file per target node type, then
\* the manifest
EmbedOps(ntypes) == [k \in 1..Len(ntypes) |-> Op("emb_shard", k)] \o <<Op("emb_info", 0)>>

PlanBarrierFirst(embed_path, pred_path, ntypes) ==
    <<Op("barrier", 1)>>
    \o (IF embed_path THEN EmbedOps(ntypes) ELSE <<>>)
    \o <<Op("barrier", 2)>>
    \o (IF pred_path THEN <<Op("pred_save", 0)>> ELSE <<>>)

PlanBarrierInsideIf(embed_path, pred_path, ntypes) ==
    (IF embed_path THEN EmbedOps(ntypes) \o <<Op("barrier", 1)>> ELSE <<>>)
    \o (IF pred_path THEN <<Op("pred_save", 0), Op("barrier", 2)>> ELSE <<>>)

\* what infer does after the predictions are computed, in program order
Plan(embed_path, pred_path, ntypes) ==
    (IF embed_path THEN EmbedOps(ntypes) ELSE <<>>)
    \o <<Op("barrier", 1)>>
    \o (IF pred_path THEN <<Op("pred_save", 0)>> ELSE <<>>)
    \o <<Op("barrier", 2)>>

\* the file save_prediction_results writes for a rank
PredictPath(rank) == "predict-" \o ToString(rank) \o ".pt"

\* barrier(): the n-th call of a rank returns once every rank has made its n-th call
BarrierOpen(n) == \A v \in IRanks : i_worker[v].entered >= n

IdleInfer ==
    /\ i_world_size = 0
    /\ i_cfg = [evaluator |-> FALSE, labels |-> FALSE, etype |-> <<>>]
    /\ i_worker = <<>>
    /\ i_dir = NoDir

InitInfer ==
    /\ i_world_size \in 1..MaxInferWorld
    /\ i_cfg \in [evaluator : BOOLEAN, labels : BOOLEAN,
                  etype : {<<"n0", "r0", "n0">>, <<"n1", "r0", "n0">>}]
    /\ \E ep \in [IRanks -> BOOLEAN], pp \in [IRanks -> BOOLEAN] :
          i_worker = [w \in IRanks |->
              [pc |-> "start", rank |-> w,
               save_embed_path |-> ep[w], save_prediction_path |-> pp[w],
               plan |-> <<>>, ip |-> 1, steps |-> <<>>, entered |-> 0, passed |-> 0]]
    /\ i_dir = NoDir

ICur(w) == i_worker[w].plan[i_worker[w].ip]

IRunning(w, name) ==
    /\ i_worker[w].pc = "run"
    /\ i_worker[w].ip <= Len(i_worker[w].plan)
    /\ ICur(w).op = name

IAdvance(me, name) ==
    [me EXCEPT !.ip = me.ip + 1,
               !.steps = Append(me.steps, name),
               !.pc = IF me.ip + 1 > Len(me.plan) THEN "done" ELSE "run"]

\* infer up to the saving: the label check, the inference, the prediction and
\* the evaluation
InferBegin(w) ==
    /\ i_worker[w].pc = "start"
    /\ LET me == i_worker[w] IN
       IF RejectsLabels(i_cfg)
       THEN i_worker' = [i_worker EXCEPT ![w].pc = "rejected"]
       ELSE i_worker' = [i_worker EXCEPT
               ![w].pc = "run",
               ![w].steps = <<"inference", "predict">>
                               \o (IF i_cfg.evaluator THEN <<"evaluate">> ELSE <<>>),
               ![w].plan = Plan(me.save_embed_path, me.save_prediction_path,
                                SortedTargetNtypes(i_cfg.etype))]
    /\ UNCHANGED <<i_world_size, i_cfg, i_dir, varsTopK, varsRange, varsGather, varsTrim, varsSave, varsCkpt, varsSum, varsSparse>>

\* save_gsgnn_embeddings writes the file of the next node type
InferSaveShard(w) ==
    /\ IRunning(w, "emb_shard")
    /\ LET me == i_worker[w]
           name == SortedTargetNtypes(i_cfg.etype)[ICur(w).k]
       IN  /\ i_dir' = WriteFile(i_dir, NamedPath(name, me.rank), "emb", me.rank)
           /\ i_worker' = [i_worker EXCEPT ![w] = IAdvance(me, "emb_shard")]
    /\ UNCHANGED <<i_world_size, i_cfg, varsTopK, varsRange, varsGather, varsTrim, varsSave, varsCkpt, varsSum, varsSparse>>

\* save_gsgnn_embeddings writes emb_info.json on rank 0 and returns
InferSaveInfo(w) ==
    /\ IRunning(w, "emb_info")
    /\ LET me == i_worker[w] IN
       /\ i_dir' = IF WritesInfo(me.rank)
                   THEN WriteFile(i_dir, InfoPath, "info", me.rank)
                   ELSE i_dir
       /\ i_worker' = [i_worker EXCEPT ![w] = IAdvance(me, "emb_info")]
    /\ UNCHANGED <<i_world_size, i_cfg, varsTopK, varsRange, varsGather, varsTrim, varsSave, varsCkpt, varsSum, varsSparse>>

\* save_prediction_results writes the predictions of the rank
InferSavePred(w) ==
    /\ IRunning(w, "pred_save")
    /\ LET me == i_worker[w] IN
       /\ i_dir' = WriteFile(i_dir, PredictPath(me.rank), "pred", me.rank)
       /\ i_worker' = [i_worker EXCEPT ![w] = IAdvance(me, "pred_save")]
    /\ UNCHANGED <<i_world_size, i_cfg, varsTopK, varsRange, varsGather, varsTrim, varsSave, varsCkpt, varsSum, varsSparse>>

\* the rank calls barrier()
InferBarrierEnter(w) ==
    /\ IRunning(w, "barrier")
    /\ i_worker' = [i_worker EXCEPT ![w].pc = "barrier",
                                    ![w].entered = i_worker[w].entered + 1,
                                    ![w].steps = Append(i_worker[w].steps, "barrier")]
    /\ UNCHANGED <<i_world_size, i_cfg, i_dir, varsTopK, varsRange, varsGather, varsTrim, varsSave, varsCkpt, varsSum, varsSparse>>

\* barrier() returns
InferBarrierLeave(w) ==
    /\ i_worker[w].pc = "barrier"
    /\ BarrierOpen(i_worker[w].entered)
    /\ LET me == i_worker[w] IN
       i_worker' = [i_worker EXCEPT
          ![w].ip = me.ip + 1,
          ![w].passed = me.passed + 1,
          ![w].pc = IF me.ip + 1 > Len(me.plan) THEN "done" ELSE "run"]
    /\ UNCHANGED <<i_world_size, i_cfg, i_dir, varsTopK, varsRange, varsGather, varsTrim, varsSave, varsCkpt, varsSum, varsSparse>>

\* ================================================================ checkpoints

Comps == <<"gnn", "embed", "decoder">>
CompSet == {Comps[i] : i \in 1..Len(Comps)}

\* the values a parameter or an optimizer state may have
ParamVals == {"v0", "v1"}

\* how a component is passed: None, a plain nn.Module, or the module wrapped
\* in DistributedDataParallel
ArgKinds == {"none", "plain", "ddp"}

NoFiles == [f \in {} |-> 0]

ParamKeys == {"weight"}

\* the parameters of a module: one tensor per key
Params(v) == [k \in ParamKeys |-> v]

\* DistributedDataParallel.state_dict(): the keys of the wrapped module under "module."
Prefixed(sd) ==
    [k \in {"module." \o x : x \in DOMAIN sd} |->
        sd[CHOOSE x \in DOMAIN sd : "module." \o x = k]]

\* gnn_model.state_dict() of the object that was passed
state_dict(kind, params) == IF kind = "ddp" THEN Prefixed(params) ELSE params

\* gnn_model is not None and isinstance(gnn_model, nn.Module)
IsSaved(kind) == kind # "none"

\* model_states of save_model
model_states(arg, modules) ==
    [c \in {x \in CompSet : IsSaved(arg[x])} |-> state_dict(arg[c], modules[c])]

\* load_state_dict is strict: the keys have to be the keys of the module
KeysMatch(params, sd) == DOMAIN sd = DOMAIN params

\* the components a call passes
Passed(arg) == {c \in CompSet : arg[c] # "none"}

\* 'gnn' in checkpoint and gnn_model is not None
Loads(checkpoint, arg, c) == c \in DOMAIN checkpoint /\ arg[c] # "none"

RECURSIVE LoadFrom(_, _, _, _)
\* load_model from component i on: the modules after it and whether it raised
LoadFrom(i, checkpoint, arg, modules) ==
    IF i > Len(Comps)
    THEN [modules |-> modules, status |-> "returned"]
    ELSE LET c == Comps[i] IN
         IF ~Loads(checkpoint, arg, c)
         THEN LoadFrom(i + 1, checkpoint, arg, modules)
         ELSE IF ~KeysMatch(modules[c], checkpoint[c])
         THEN [modules |-> modules, status |-> "RuntimeError"]
         ELSE LoadFrom(i + 1, checkpoint, arg, [modules EXCEPT ![c] = checkpoint[c]])

RemoveStatusAlwaysZero(removed) == 0

\* the status remove_saved_models returns
RemoveStatus(removed) == IF removed THEN 0 ELSE -1

DenseCountAny(dense_opts) == Len(dense_opts) >= 1

\* assert len(dense_opts) == 1
DenseCountAccepted(dense_opts) == Len(dense_opts) = 1

Call(fn, arg, status, ret, wrote, warned, before) ==
    [fn |-> fn, arg |-> arg, status |-> status, ret |-> ret, wrote |-> wrote,
     warned |-> warned, before |-> before]

\* os.makedirs, then th.save(obj, os.path.join(model_path, name))
SaveFile(files, name, obj) ==
    [f \in DOMAIN files \cup {name} |-> IF f = name THEN obj ELSE files[f]]

IdleCkpt ==
    /\ c_path = "absent"
    /\ c_files = NoFiles
    /\ c_modules = <<>>
    /\ c_call = Call("none", <<>>, "none", 0, {}, FALSE, <<>>)

InitCkpt ==
    /\ c_path = "absent"
    /\ c_files = NoFiles
    /\ c_modules \in [CompSet -> {Params(v) : v \in ParamVals}]
    /\ c_call = Call("none", <<>>, "none", 0, {}, FALSE, <<>>)

\* a training step changes the parameters of a component
TrainStep(c, v) ==
    /\ c_modules[c] # Params(v)
    /\ c_modules' = [c_modules EXCEPT ![c] = Params(v)]
    /\ c_call' = Call("train", <<>>, "returned", 0, {}, FALSE, <<>>)
    /\ UNCHANGED <<c_path, c_files, varsTopK, varsRange, varsGather, varsTrim, varsSave, varsInfer, varsSum, varsSparse>>

save_model(arg) ==
    /\ c_path' = "dir"
    /\ c_files' = SaveFile(c_files, "model.bin", model_states(arg, c_modules))
    /\ c_call' = Call("save_model", arg, "returned", 0, {"model.bin"}, FALSE, <<>>)
    /\ UNCHANGED <<c_modules, varsTopK, varsRange, varsGather, varsTrim, varsSave, varsInfer, varsSum, varsSparse>>

load_model(arg) ==
    /\ IF "model.bin" \notin DOMAIN c_files
       THEN /\ c_modules' = c_modules
            /\ c_call' = Call("load_model", Passed(arg), "FileNotFoundError", 0, {}, FALSE,
                              c_modules)
       ELSE LET r == LoadFrom(1, c_files["model.bin"], arg, c_modules) IN
            /\ c_modules' = r.modules
            /\ c_call' = Call("load_model", Passed(arg), r.status, 0, {}, FALSE, c_modules)
    /\ UNCHANGED <<c_path, c_files, varsTopK, varsRange, varsGather, varsTrim, varsSave, varsInfer, varsSum, varsSparse>>

save_opt_state(dense_opts, sparse_opts) ==
    /\ IF ~DenseCountAccepted(dense_opts)
       THEN /\ UNCHANGED <<c_path, c_files>>
            /\ c_call' = Call("save_opt_state", [dense |-> dense_opts, sparse |-> sparse_opts],
                              "AssertionError", 0, {}, FALSE, <<>>)
       ELSE /\ c_path' = "dir"
            /\ c_files' = SaveFile(c_files, "optimizers.bin",
                                   [k \in {"dense"} |-> dense_opts[1]])
            /\ c_call' = Call("save_opt_state", [dense |-> dense_opts, sparse |-> sparse_opts],
                              "returned", 0, {"optimizers.bin"},
                              Len(sparse_opts) > 0, <<>>)
    /\ UNCHANGED <<c_modules, varsTopK, varsRange, varsGather, varsTrim, varsSave, varsInfer, varsSum, varsSparse>>

\* remove_saved_models: shutil.rmtree either removes the directory or fails
\* with OSError, leaving any part of it
remove_saved_models(removed, left) ==
    /\ removed => left = {}
    /\ IF c_path = "absent"
       THEN /\ UNCHANGED <<c_path, c_files>>
            /\ c_call' = Call("remove_saved_models", c_path, "AssertionError", 0, {},
                              FALSE, <<>>)
       ELSE IF removed
       THEN /\ c_path' = "absent"
            /\ c_files' = NoFiles
            /\ c_call' = Call("remove_saved_models", c_path, "returned",
                              RemoveStatus(TRUE), {}, FALSE, <<>>)
       ELSE /\ c_path' = "dir"
            /\ c_files' = [f \in left |-> c_files[f]]
            /\ c_call' = Call("remove_saved_models", c_path, "returned",
                              RemoveStatus(FALSE), {}, TRUE, <<>>)
    /\ UNCHANGED <<c_modules, varsTopK, varsRange, varsGather, varsTrim, varsSave, varsInfer, varsSum, varsSparse>>

SparseLoadFailsOnKey(checkpoint, sparse_opts) == "sparse" \in DOMAIN checkpoint

\* if 'sparse' in checkpoint and len(sparse_opts) > 0
SparseLoadFails(checkpoint, sparse_opts) ==
    "sparse" \in DOMAIN checkpoint /\ Len(sparse_opts) > 0

\* load_opt_state: the call record holds the dense optimizers as they are
\* passed (arg) and as they are when the call ends (ret)
load_opt_state(dense_opts, sparse_opts) ==
    /\ LET arg == [dense |-> dense_opts, sparse |-> sparse_opts] IN
       IF "optimizers.bin" \notin DOMAIN c_files
       THEN c_call' = Call("load_opt_state", arg, "FileNotFoundError", dense_opts, {},
                           FALSE, <<>>)
       ELSE IF ~DenseCountAccepted(dense_opts)
       THEN c_call' = Call("load_opt_state", arg, "AssertionError", dense_opts, {},
                           FALSE, <<>>)
       ELSE LET checkpoint == c_files["optimizers.bin"]
                loaded == <<checkpoint["dense"]>>
            IN  IF SparseLoadFails(checkpoint, sparse_opts)
                THEN c_call' = Call("load_opt_state", arg, "NotImplementedError", loaded,
                                    {}, FALSE, <<>>)
                ELSE c_call' = Call("load_opt_state", arg, "returned", loaded, {},
                                    FALSE, <<>>)
    /\ UNCHANGED <<c_path, c_files, c_modules, varsTopK, varsRange, varsGather, varsTrim, varsSave, varsInfer, varsSum, varsSparse>>

\* an optimizers.bin that holds the state of a sparse optimizer as well
ForeignOptFile(v) == [k \in {"dense", "sparse"} |-> v]

\* model_path is empty or holds a checkpoint with a 'sparse' key
InitOpt ==
    /\ \/ c_path = "absent" /\ c_files = NoFiles
       \/ /\ c_path = "dir"
          /\ \E v \in ParamVals : c_files = SaveFile(NoFiles, "optimizers.bin", ForeignOptFile(v))
    /\ c_modules \in [CompSet -> {Params(v) : v \in ParamVals}]
    /\ c_call = Call("none", <<>>, "none", 0, {}, FALSE, <<>>)

DenseOptLists ==
    {<<>>} \cup {<<a>> : a \in ParamVals} \cup {<<a, b>> : a \in ParamVals, b \in ParamVals}

SparseOptLists == {<<>>, <<"sparse0">>}

\* =================================================================== dist_sum

DRanks == 0..(d_world_size - 1)

RECURSIVE SeqSum(_)
SeqSum(q) == IF q = <<>> THEN 0 ELSE q[1] + SeqSum(Tail(q))

ReduceSumAsMin(q) == SetMin({q[i] : i \in 1..Len(q)})

\* dist.all_reduce(size, dist.ReduceOp.SUM) over what the ranks contributed
ReduceSum(q) == SeqSum(q)

IdleSum == d_world_size = 0 /\ d_worker = <<>>

InitSum ==
    /\ d_world_size \in 1..MaxWorld
    /\ \E size \in [DRanks -> 0..MaxSize] :
       \E cuda \in [DRanks -> BOOLEAN] :
          d_worker = [w \in DRanks |->
              [pc |-> "start", size |-> size[w], cuda |-> cuda[w],
               tensor |-> NoCount, result |-> NoCount]]

\* dist_sum up to the collective: the size is put on the current CUDA device,
\* which has to exist, and handed to all_reduce
SumStart(w) ==
    /\ d_worker[w].pc = "start"
    /\ IF d_worker[w].cuda
       THEN d_worker' = [d_worker EXCEPT ![w].pc = "all_reduce",
                                         ![w].tensor = d_worker[w].size]
       ELSE d_worker' = [d_worker EXCEPT ![w].pc = "error"]
    /\ UNCHANGED <<d_world_size, varsTopK, varsRange, varsGather, varsTrim, varsSave, varsInfer, varsCkpt, varsSparse>>

\* all_reduce returns once every rank has called it; the call returns the sum
SumReturn(w) ==
    /\ d_worker[w].pc = "all_reduce"
    /\ \A v \in DRanks : d_worker[v].tensor # NoCount
    /\ d_worker' = [d_worker EXCEPT
          ![w].pc = "done",
          ![w].result = ReduceSum([i \in 1..d_world_size |-> d_worker[i - 1].tensor])]
    /\ UNCHANGED <<d_world_size, varsTopK, varsRange, varsGather, varsTrim, varsSave, varsInfer, varsCkpt, varsSparse>>

\* ========================================================== sparse embeddings

\* batch_size = 10240
batch_size == 10240

\* the table sizes tried: around every multiple of the batch size
NumEmbsChoices ==
    {n \in {k * batch_size + d : k \in 0..MaxBatches, d \in {-1, 0, 1}} : n >= 0}

\* the row of index i of the table after its v-th update
Row(v, i) == IF v = 0 THEN i ELSE -(i + 1)

TableAt(v, n) == [i \in 1..n |-> Row(v, i - 1)]

\* th.arange(lo, hi)
arange(lo, hi) == [j \in 1..(hi - lo) |-> lo + j - 1]

\* the number of chunks of th.split: an empty tensor gives one empty chunk
NumChunks(n, b) == IF n = 0 THEN 1 ELSE (n + b - 1) \div b

SplitWithoutRemainder(n, b) == [k \in 1..(n \div b) |-> arange((k - 1) * b, k * b)]

\* th.split(th.arange(num_embs), batch_size, dim=0)
Split(n, b) == [k \in 1..NumChunks(n, b) |-> arange((k - 1) * b, Min2(k * b, n))]

\* t[idx] when every index is in range
Gather(rows, idx) == [j \in 1..Len(idx) |-> rows[idx[j] + 1]]

\* t[idx] raises an IndexError when an index is out of range
InRange(rows, idx) == \A j \in 1..Len(idx) : idx[j] < Len(rows)

\* t[idx] = vals for a batch of consecutive indices
Scatter(rows, idx, vals) ==
    [i \in 1..Len(rows) |->
        LET j == IF idx = <<>> THEN 0 ELSE i - idx[1]
        IN  IF j \in 1..Len(idx) /\ idx[j] = i - 1 THEN vals[j] ELSE rows[i]]

RECURSIVE CatRows(_)
\* th.cat(embs, dim=0)
CatRows(embs) == IF embs = <<>> THEN <<>> ELSE embs[1] \o CatRows(Tail(embs))

\* f'{ntype}_sparse_emb.pt'
SparsePath(ntype) == ntype \o "_sparse_emb.pt"

SparseCall(fn, pc, idxs, k, embs, emb) ==
    [fn |-> fn, pc |-> pc, idxs |-> idxs, k |-> k, embs |-> embs, emb |-> emb]

NoSparseCall == SparseCall("none", "returned", <<>>, 0, <<>>, <<>>)

IdleSparse ==
    /\ e_num_embs = 0
    /\ e_table = <<>>
    /\ e_path = "absent"
    /\ e_files = NoFiles
    /\ e_call = NoSparseCall

InitSparse ==
    /\ e_num_embs \in NumEmbsChoices
    /\ e_table = TableAt(0, e_num_embs)
    /\ e_path \in {"absent", "dir"}
    /\ e_files = NoFiles
    /\ e_call = NoSparseCall

SparseIdle == e_call.pc \in {"returned", "error"}

\* between two calls the training updates the table
SparseUpdate(v) ==
    /\ SparseIdle
    /\ e_table # TableAt(v, e_num_embs)
    /\ e_table' = TableAt(v, e_num_embs)
    /\ e_call' = SparseCall("update", "returned", <<>>, 0, <<>>, <<>>)
    /\ UNCHANGED <<e_num_embs, e_path, e_files, varsTopK, varsRange, varsGather, varsTrim, varsSave, varsInfer, varsCkpt, varsSum>>

\* save_sparse_embeds up to the loop over the batches
SaveSparseBegin(kind) ==
    /\ SparseIdle
    /\ e_call' = IF kind = "none"
                 THEN SparseCall("save_sparse_embeds", "returned", <<>>, 0, <<>>, <<>>)
                 ELSE SparseCall("save_sparse_embeds", "collect",
                                 Split(e_num_embs, batch_size), 1, <<>>, <<>>)
    /\ UNCHANGED <<e_num_embs, e_table, e_path, e_files, varsTopK, varsRange, varsGather, varsTrim, varsSave, varsInfer, varsCkpt, varsSum>>

\* embs.append(sparse_emb._tensor[idx])
SaveSparseBatch ==
    /\ e_call.fn = "save_sparse_embeds" /\ e_call.pc = "collect"
    /\ e_call.k <= Len(e_call.idxs)
    /\ e_call' = [e_call EXCEPT
          !.embs = Append(e_call.embs, Gather(e_table, e_call.idxs[e_call.k])),
          !.k = e_call.k + 1]
    /\ UNCHANGED <<e_num_embs, e_table, e_path, e_files, varsTopK, varsRange, varsGather, varsTrim, varsSave, varsInfer, varsCkpt, varsSum>>

\* th.cat and th.save: model_path has to exist
SaveSparseWrite ==
    /\ e_call.fn = "save_sparse_embeds" /\ e_call.pc = "collect"
    /\ e_call.k > Len(e_call.idxs)
    /\ IF e_path = "dir"
       THEN /\ e_files' = SaveFile(e_files, SparsePath("n0"), CatRows(e_call.embs))
            /\ e_call' = [e_call EXCEPT !.pc = "returned"]
       ELSE /\ e_files' = e_files
            /\ e_call' = [e_call EXCEPT !.pc = "error"]
    /\ UNCHANGED <<e_num_embs, e_table, e_path, varsTopK, varsRange, varsGather, varsTrim, varsSave, varsInfer, varsCkpt, varsSum>>

\* load_sparse_embeds up to the loop over the batches
LoadSparseBegin(kind) ==
    /\ SparseIdle
    /\ e_call' = IF kind = "none"
                 THEN SparseCall("load_sparse_embeds", "returned", <<>>, 0, <<>>, <<>>)
                 ELSE IF SparsePath("n0") \notin DOMAIN e_files
                 THEN SparseCall("load_sparse_embeds", "error", <<>>, 0, <<>>, <<>>)
                 ELSE SparseCall("load_sparse_embeds", "restore",
                                 Split(e_num_embs, batch_size), 1, <<>>,
                                 e_files[SparsePath("n0")])
    /\ UNCHANGED <<e_num_embs, e_table, e_path, e_files, varsTopK, varsRange, varsGather, varsTrim, varsSave, varsInfer, varsCkpt, varsSum>>

\* sparse_emb._tensor[idx] = emb[idx]; after the last batch the call returns
LoadSparseBatch ==
    /\ e_call.fn = "load_sparse_embeds" /\ e_call.pc = "restore"
    /\ LET idx == e_call.idxs[e_call.k] IN
       IF ~InRange(e_call.emb, idx)
       THEN /\ e_table' = e_table
            /\ e_call' = [e_call EXCEPT !.pc = "error"]
       ELSE /\ e_table' = Scatter(e_table, idx, Gather(e_call.emb, idx))
            /\ e_call' = [e_call EXCEPT
                  !.k = e_call.k + 1,
                  !.pc = IF e_call.k = Len(e_call.idxs) THEN "returned" ELSE "restore"]
    /\ UNCHANGED <<e_num_embs, e_path, e_files, varsTopK, varsRange, varsGather, varsTrim, varsSave, varsInfer, varsCkpt, varsSum>>

\* os.makedirs(model_path) of the saving of the model
SparseMakeDir ==
    /\ SparseIdle
    /\ e_path = "absent"
    /\ e_path' = "dir"
    /\ e_call' = SparseCall("makedirs", "returned", <<>>, 0, <<>>, <<>>)
    /\ UNCHANGED <<e_num_embs, e_table, e_files, varsTopK, varsRange, varsGather, varsTrim, varsSave, varsInfer, varsCkpt, varsSum>>

\* ============================================================ specifications

NextTopK == \E rank \in Ranks, val \in Vals : insert(rank, val)

StartTopK == InitTopK /\ IdleRange /\ IdleGather /\ IdleTrim /\ IdleSave /\ IdleInfer /\ IdleCkpt /\ IdleSum /\ IdleSparse

SpecTopK == StartTopK /\ [][NextTopK]_vars

NextRange == AssignRange

StartRange == IdleTopK /\ InitRange /\ IdleGather /\ IdleTrim /\ IdleSave /\ IdleInfer /\ IdleCkpt /\ IdleSum /\ IdleSparse

SpecRange == StartRange /\ [][NextRange]_vars

NextGather ==
    \/ \E w \in GRanks : GatherStart(w)
    \/ \E w \in GRanks : SizeGatherReturn(w)
    \/ \E w \in GRanks : DataGatherReturn(w)
    \/ \E w \in GRanks : DataGatherAbort(w)

StartGather == IdleTopK /\ IdleRange /\ InitGather /\ IdleTrim /\ IdleSave /\ IdleInfer /\ IdleCkpt /\ IdleSum /\ IdleSparse

SpecGather == StartGather /\ [][NextGather]_vars

\* every rank is scheduled: a rank that can take a step of all_gather takes it
FairGather == \A w \in 0..(MaxWorld - 1) :
    /\ WF_vars(w \in GRanks /\ GatherStart(w))
    /\ WF_vars(w \in GRanks /\ SizeGatherReturn(w))
    /\ WF_vars(w \in GRanks /\ DataGatherReturn(w))
    /\ WF_vars(w \in GRanks /\ DataGatherAbort(w))

SpecGatherFair == SpecGather /\ FairGather

NextTrim ==
    \/ \E w \in TRanks : TrimStart(w)
    \/ \E w \in TRanks : TrimReturn(w)

StartTrim == IdleTopK /\ IdleRange /\ IdleGather /\ InitTrim /\ IdleSave /\ IdleInfer /\ IdleCkpt /\ IdleSum /\ IdleSparse

SpecTrim == StartTrim /\ [][NextTrim]_vars

NextSave ==
    \/ \E w \in SProcs : SaveBegin(w)
    \/ \E w \in SProcs : SaveShard(w)
    \/ \E w \in SProcs : SaveInfo(w)

StartSave == IdleTopK /\ IdleRange /\ IdleGather /\ IdleTrim /\ InitSave /\ IdleInfer /\ IdleCkpt /\ IdleSum /\ IdleSparse

SpecSave == StartSave /\ [][NextSave]_vars

NextInfer ==
    \/ \E w \in IRanks : InferBegin(w)
    \/ \E w \in IRanks : InferSaveShard(w)
    \/ \E w \in IRanks : InferSaveInfo(w)
    \/ \E w \in IRanks : InferSavePred(w)
    \/ \E w \in IRanks : InferBarrierEnter(w)
    \/ \E w \in IRanks : InferBarrierLeave(w)

StartInfer == IdleTopK /\ IdleRange /\ IdleGather /\ IdleTrim /\ IdleSave /\ InitInfer /\ IdleCkpt /\ IdleSum /\ IdleSparse

SpecInfer == StartInfer /\ [][NextInfer]_vars

NextCkpt ==
    \/ \E c \in CompSet, v \in ParamVals : TrainStep(c, v)
    \/ \E arg \in [CompSet -> ArgKinds] : save_model(arg)
    \/ \E arg \in [CompSet -> ArgKinds] : load_model(arg)
    \/ \E d \in DenseOptLists, sp \in SparseOptLists : save_opt_state(d, sp)
    \/ \E removed \in BOOLEAN, left \in SUBSET DOMAIN c_files :
          remove_saved_models(removed, left)

StartCkpt ==
    IdleTopK /\ IdleRange /\ IdleGather /\ IdleTrim /\ IdleSave /\ IdleInfer /\ InitCkpt
    /\ IdleSum /\ IdleSparse

SpecCkpt == StartCkpt /\ [][NextCkpt]_vars

NextOpt ==
    \/ \E d \in DenseOptLists, sp \in SparseOptLists : save_opt_state(d, sp)
    \/ \E d \in DenseOptLists, sp \in SparseOptLists : load_opt_state(d, sp)
    \/ \E removed \in BOOLEAN, left \in SUBSET DOMAIN c_files :
          remove_saved_models(removed, left)

StartOpt ==
    IdleTopK /\ IdleRange /\ IdleGather /\ IdleTrim /\ IdleSave /\ IdleInfer /\ IdleSum
    /\ InitOpt /\ IdleSparse

SpecOpt == StartOpt /\ [][NextOpt]_vars

NextSum ==
    \/ \E w \in DRanks : SumStart(w)
    \/ \E w \in DRanks : SumReturn(w)

StartSum ==
    IdleTopK /\ IdleRange /\ IdleGather /\ IdleTrim /\ IdleSave /\ IdleInfer /\ IdleCkpt
    /\ InitSum /\ IdleSparse

SpecSum == StartSum /\ [][NextSum]_vars

NextSparse ==
    \/ \E v \in {0, 1} : SparseUpdate(v)
    \/ \E kind \in ArgKinds : SaveSparseBegin(kind)
    \/ SaveSparseBatch
    \/ SaveSparseWrite
    \/ \E kind \in ArgKinds : LoadSparseBegin(kind)
    \/ LoadSparseBatch
    \/ SparseMakeDir

StartSparse ==
    IdleTopK /\ IdleRange /\ IdleGather /\ IdleTrim /\ IdleSave /\ IdleInfer /\ IdleCkpt
    /\ IdleSum /\ InitSparse

SpecSparse == StartSparse /\ [][NextSparse]_vars

\* ==================================================================== claims

Inserted == ins.rank >= 1

\* C1: whatever top_k >= 0 and whatever inserts with rank >= 1 were made, the
\* list is never longer than top_k.
C1_LengthBounded == Len(toplist) <= top_k

C1_Witness ==
    /\ Inserted /\ ins.insert_success
    /\ top_k >= 2 /\ Len(ins.before) = top_k /\ Len(toplist) = top_k

C3_FullInsertEvictsTail ==
    (Inserted /\ Len(ins.before) = top_k /\ ins.rank <= top_k) =>
        /\ ins.insert_success
        /\ ins.return_val = ins.before[top_k]
        /\ Len(toplist) = top_k
        /\ toplist[ins.rank] = ins.val
        /\ toplist = SubSeq(ins.before, 1, ins.rank - 1) \o <<ins.val>>
                        \o SubSeq(ins.before, ins.rank, top_k - 1)

C3_Witness ==
    /\ Inserted /\ Len(ins.before) = top_k /\ ins.rank < top_k /\ ins.rank > 1
    /\ ins.return_val # ins.val

NotFullInsert == Inserted /\ Len(ins.before) < top_k /\ ins.rank <= top_k

\* C4 as stated: on a list that is not full an insert with 1 <= rank <= top_k
\* returns (True, val), the list grows by one and val is at position rank-1.
C4_Original ==
    NotFullInsert =>
        /\ ins.insert_success
        /\ ins.return_val = ins.val
        /\ Len(toplist) = Len(ins.before) + 1
        /\ ins.rank <= Len(toplist)
        /\ toplist[ins.rank] = ins.val

\* C4 as amended: on a list that is not full an insert with 1 <= rank <= top_k
\* returns (True, val), the list grows by one and val is at position
\* min(rank-1, old length): the entries before it keep their place, those
\* from it on move right by one.
C4_Amended ==
    NotFullInsert =>
        LET p == Min2(ins.rank, Len(ins.before) + 1)
        IN  /\ ins.insert_success
            /\ ins.return_val = ins.val
            /\ Len(toplist) = Len(ins.before) + 1
            /\ toplist[p] = ins.val
            /\ \A i \in 1..(p - 1) : toplist[i] = ins.before[i]
            /\ \A i \in p..Len(ins.before) : toplist[i + 1] = ins.before[i]

C4_Witness ==
    /\ NotFullInsert /\ Len(ins.before) >= 1 /\ ins.rank <= Len(ins.before)
    /\ ins.before[ins.rank] # ins.val

RangeIndices(r) == {i \in 0..rq.num_embs : r.start <= i /\ i < r.end}

\* C5: the ranges of ranks 0..world_size-1 satisfy 0 <= start <= end <=
\* total_count, are contiguous, do not overlap and cover [0, total_count)
\* exactly, the last rank taking the remainder; with total_count < world_size
\* every rank but the last gets an empty range.
C5_RangesPartition ==
    LET n == rq.num_embs
        w == rq.world_size
        k == Len(ranges)
    IN  /\ \A i \in 1..k :
              0 <= ranges[i].start /\ ranges[i].start <= ranges[i].end
                 /\ ranges[i].end <= n
        /\ (k >= 1 => ranges[1].start = 0)
        /\ \A i \in 1..(k - 1) : ranges[i].end = ranges[i + 1].start
        /\ \A i \in 1..k : \A j \in 1..k :
              i # j => RangeIndices(ranges[i]) \cap RangeIndices(ranges[j]) = {}
        /\ (k = w =>
              /\ ranges[w].end = n
              /\ UNION {RangeIndices(ranges[i]) : i \in 1..w} = 0..(n - 1)
              /\ (w >= 2 => ranges[w].end - ranges[w].start
                               = (n \div w) + (n % w)))
        /\ (n < w => \A i \in 1..k : i < w => ranges[i].start = ranges[i].end)

C5_Witness ==
    /\ Len(ranges) = rq.world_size /\ rq.world_size >= 3
    /\ rq.num_embs > rq.world_size /\ rq.num_embs % rq.world_size # 0

\* C6: with world_size > 1 and tensors that differ only in the size of the last
\* dimension, no call fails, the size a rank reports is the size of its last
\* dimension whatever the number of dimensions, and a rank that returned holds
\* world_size tensors, result[i] being exactly the input of rank i.
C6_GatherExact ==
    g_world_size > 1 =>
        \A w \in GRanks :
            /\ g_worker[w].pc # "error"
            /\ (g_worker[w].local_size # NoSize =>
                   g_worker[w].local_size = LastDim(g_worker[w].input.shape))
            /\ (g_worker[w].pc = "done" =>
                   /\ Len(g_worker[w].data_list) = g_world_size
                   /\ \A i \in GRanks :
                         g_worker[w].data_list[i + 1] = g_worker[i].input)

\* C7: with world_size = 1 the call returns the one-element list holding the
\* input tensor and issues no collective call.
C7_SingleWorkerNoCollective ==
    g_world_size = 1 =>
        \A w \in GRanks :
            /\ g_worker[w].ncoll = 0
            /\ g_worker[w].local_size = NoSize
            /\ g_worker[w].pc \in {"start", "done"}
            /\ (g_worker[w].pc = "done" =>
                   g_worker[w].data_list = <<g_worker[w].input>>)

C7_Witness ==
    /\ g_world_size = 1
    /\ g_worker[0].pc = "done"
    /\ Len(g_worker[0].input.shape) = 1
    /\ LastDim(g_worker[0].input.shape) >= 1

LocalCounts == {Len(t_worker[v].nids) : v \in TRanks}

\* C8: every rank that returns from trim_data holds exactly min(c_0..c_{W-1})
\* ids, no more than it had, and they are the first ids of its input.
C8_TrimToGlobalMin ==
    \A w \in TRanks :
        t_worker[w].pc = "done" =>
            LET m == SetMin(LocalCounts) IN
            /\ Len(t_worker[w].new_nids) = m
            /\ m <= Len(t_worker[w].nids)
            /\ t_worker[w].new_nids = SubSeq(t_worker[w].nids, 1, m)

C8_Witness ==
    /\ t_world_size = 3
    /\ Cardinality(LocalCounts) = 3
    /\ \A w \in TRanks : t_worker[w].pc = "done"
    /\ \E w \in TRanks :
          /\ Len(t_worker[w].new_nids) >= 1
          /\ Len(t_worker[w].new_nids) < Len(t_worker[w].nids)

ValidRanks == \A w \in SProcs : s_worker[w].local_rank = w

AllSaved == \A w \in SProcs : s_worker[w].pc = "done"

Entries == 1..Len(s_arg.entries)

\* the file of entry k written by rank r
PathOf(k, r) ==
    IF s_arg.isdict THEN NamedPath(s_arg.entries[k].name, r) ELSE UnnamedPath(r)

WrittenBy(r) ==
    {p \in DOMAIN s_dir : p # InfoPath /\ \E i \in 1..Len(s_dir[p].by) : s_dir[p].by[i] = r}

RECURSIVE ConcatParts(_, _)
\* the files of entry k of ranks 0..r, one after the other
ConcatParts(k, r) ==
    IF r < 0 THEN <<>> ELSE ConcatParts(k, r - 1) \o s_dir[PathOf(k, r)].data

\* C9: when every rank 0..W-1 has saved a distributed tensor of length N (alone
\* or as an entry of a dict), rank r has written exactly one file per name, the
\* file holds rows [start_r, end_r) of the tensor, and the files of ranks
\* 0..world_size-1, world_size read from emb_info.json, put one after the
\* other are the tensor.
C9_ShardsReassemble ==
    ValidRanks =>
        /\ \A r \in SProcs :
              s_worker[r].pc = "done" =>
                 /\ WrittenBy(r) = {PathOf(k, r) : k \in Entries}
                 /\ Cardinality(WrittenBy(r)) = Len(s_arg.entries)
                 /\ \A k \in Entries :
                       LET e == s_arg.entries[k]
                           per == e.n \div s_world_size
                           start == r * per
                           end == IF r = s_world_size - 1 THEN e.n ELSE (r + 1) * per
                       IN  /\ s_dir[PathOf(k, r)].by = <<r>>
                           /\ (e.kind = "dist" =>
                                 s_dir[PathOf(k, r)].data
                                    = [i \in 1..(end - start) |-> <<k, -1, start + i - 1>>])
        /\ AllSaved =>
              /\ InfoPath \in DOMAIN s_dir
              /\ \A k \in Entries :
                    s_arg.entries[k].kind = "dist" =>
                       ConcatParts(k, s_dir[InfoPath].data.world_size - 1)
                          = [i \in 1..s_arg.entries[k].n |-> <<k, -1, i - 1>>]

C9_Witness ==
    /\ ValidRanks /\ AllSaved /\ s_world_size = 3
    /\ s_arg.isdict /\ Len(s_arg.entries) = 2
    /\ s_arg.entries[1].kind = "dist" /\ s_arg.entries[1].n = 4
    /\ s_arg.entries[2].kind = "dist" /\ s_arg.entries[2].n = 2

\* C10: whatever the interleaving of the calls of processes with distinct
\* ranks, no file is written by two processes: a shard file is written by the
\* rank in its name only, and emb_info.json is written once, by rank 0 only,
\* and holds the names (null for a single unnamed tensor) and world_size.
C10_ExclusiveWriters ==
    /\ \A p \in DOMAIN s_dir :
          /\ Len(s_dir[p].by) = 1
          /\ p # InfoPath => \E k \in Entries : p = PathOf(k, s_dir[p].by[1])
          /\ p = InfoPath =>
                /\ s_dir[p].by = <<0>>
                /\ s_dir[p].data.world_size = s_world_size
                /\ s_dir[p].data.emb_name.null = ~s_arg.isdict
                /\ s_dir[p].data.emb_name.names =
                      IF s_arg.isdict
                      THEN [k \in Entries |-> s_arg.entries[k].name]
                      ELSE <<>>
    /\ \A w \in SProcs :
          (s_worker[w].pc = "done" /\ s_worker[w].local_rank = 0) =>
              InfoPath \in DOMAIN s_dir

C10_Witness ==
    /\ AllSaved /\ ValidRanks /\ s_world_size = 3
    /\ s_arg.isdict /\ Len(s_arg.entries) = 2
    /\ InfoPath \in DOMAIN s_dir
    /\ Cardinality(DOMAIN s_dir) = 7

IHasFile(path, rank) == path \in DOMAIN i_dir /\ i_dir[path].by = <<rank>>

\* the save_embeddings call of rank v, if infer makes one, is over: the file of
\* every target node type is written and, on rank 0, emb_info.json
EmbedSaveOver(v) ==
    i_worker[v].save_embed_path =>
        /\ \A k \in 1..Len(SortedTargetNtypes(i_cfg.etype)) :
              IHasFile(NamedPath(SortedTargetNtypes(i_cfg.etype)[k], v), v)
        /\ (v = 0 => IHasFile(InfoPath, 0))

PredSaveOver(v) == i_worker[v].save_prediction_path => IHasFile(PredictPath(v), v)

\* C11: no rank is past the barrier that follows the saving of the embeddings
\* before every rank has finished its save_embeddings call, and none is past
\* the second barrier before every rank has saved its predictions.
C11_BarrierAfterSaves ==
    \A w \in IRanks :
        /\ (i_worker[w].passed >= 1 => \A v \in IRanks : EmbedSaveOver(v))
        /\ (i_worker[w].passed >= 2 => \A v \in IRanks : PredSaveOver(v))

C11_Witness ==
    /\ i_world_size = 2
    /\ \A v \in IRanks : i_worker[v].save_embed_path /\ i_worker[v].save_prediction_path
    /\ i_worker[0].passed = 2 /\ i_worker[1].passed = 1
    /\ Len(SortedTargetNtypes(i_cfg.etype)) = 2

\* C16: with an evaluator configured and no label data, the call of every rank
\* is rejected before it has done any inference step, entered any barrier or
\* written any file.
C16_RejectedBeforeAnyStep ==
    (i_cfg.evaluator /\ ~i_cfg.labels) =>
        /\ DOMAIN i_dir = {}
        /\ \A w \in IRanks :
              /\ i_worker[w].pc \in {"start", "rejected"}
              /\ i_worker[w].steps = <<>>
              /\ i_worker[w].entered = 0
              /\ i_worker[w].passed = 0

C16_Witness ==
    /\ i_cfg.evaluator /\ ~i_cfg.labels
    /\ i_world_size = 2
    /\ \A w \in IRanks : i_worker[w].pc = "rejected" /\ i_worker[w].save_embed_path

\* ---------------------------------------------------------------- checkpoints

\* C12 as stated: remove_saved_models never raises; it returns 0 when the
\* directory was deleted and -1 on every failure, a path that does not exist
\* included.
C12_Original ==
    c_call.fn = "remove_saved_models" =>
        /\ c_call.status = "returned"
        /\ IF c_call.arg = "dir" /\ c_path = "absent" THEN c_call.ret = 0 ELSE c_call.ret = -1

\* C12 amended: on a path that exists remove_saved_models never raises, it
\* returns 0 when the directory was deleted recursively and -1 when the removal
\* failed; on a path that does not exist it fails its assertion and changes
\* nothing.
C12_Amended ==
    c_call.fn = "remove_saved_models" =>
        IF c_call.arg = "dir"
        THEN /\ c_call.status = "returned"
             /\ \/ c_call.ret = 0 /\ c_path = "absent" /\ c_files = NoFiles
                \/ c_call.ret = -1 /\ c_path = "dir"
        ELSE c_call.status = "AssertionError" /\ c_path = "absent"

C12_Witness ==
    /\ c_call.fn = "remove_saved_models"
    /\ c_call.ret = -1
    /\ "model.bin" \in DOMAIN c_files

\* the state of the underlying module a saved state dict stands for
Underlying(sd) ==
    [k \in ParamKeys |-> IF k \in DOMAIN sd THEN sd[k] ELSE sd["module." \o k]]

\* C13: model.bin holds exactly the components passed to save_model, and a
\* load_model given all three modules returns without an error, restores every
\* component of model.bin exactly and leaves the others as they were.
C13_SubsetRoundTrip ==
    /\ c_call.fn = "save_model" => DOMAIN c_files["model.bin"] = Passed(c_call.arg)
    /\ (c_call.fn = "load_model" /\ c_call.arg = CompSet /\ "model.bin" \in DOMAIN c_files) =>
          /\ c_call.status = "returned"
          /\ \A c \in CompSet :
                IF c \in DOMAIN c_files["model.bin"]
                THEN c_modules[c] = Underlying(c_files["model.bin"][c])
                ELSE c_modules[c] = c_call.before[c]

\* C14: whatever way a component is passed, wrapped or plain, save_model
\* stores the state dict of the underlying module, and load_model puts the
\* stored state into the underlying module.
C14_UnwrappedState ==
    /\ c_call.fn = "save_model" =>
          \A c \in Passed(c_call.arg) : c_files["model.bin"][c] = c_modules[c]
    /\ (c_call.fn = "load_model" /\ "model.bin" \in DOMAIN c_files) =>
          \A c \in c_call.arg \cap DOMAIN c_files["model.bin"] :
             c_modules[c] = c_files["model.bin"][c]

\* C15: save_opt_state with a number of dense optimizers other than one fails
\* and writes no optimizers.bin; with exactly one it writes optimizers.bin with
\* the one key 'dense' holding that optimizer's state, and sparse optimizers
\* only cause a warning.
C15_OneDenseOptimizer ==
    c_call.fn = "save_opt_state" =>
        IF Len(c_call.arg.dense) # 1
        THEN c_call.status = "AssertionError" /\ "optimizers.bin" \notin c_call.wrote
        ELSE /\ c_call.status = "returned"
             /\ "optimizers.bin" \in c_call.wrote
             /\ c_files["optimizers.bin"] = [k \in {"dense"} |-> c_call.arg.dense[1]]
             /\ Len(c_call.arg.sparse) > 0 => c_call.warned

C15_Witness ==
    /\ c_call.fn = "save_opt_state"
    /\ Len(c_call.arg.dense) = 2
    /\ c_call.status = "AssertionError"

\* C17: a save_embeddings call whose rank is outside 0..world_size-1, below
\* zero as well as at or above world_size, is rejected and has written no
\* shard file and no emb_info.json.
C17_RejectsRankOutOfRange ==
    \A w \in SProcs :
        s_worker[w].local_rank \notin 0..(s_world_size - 1) =>
            /\ s_worker[w].pc \in {"start", "error"}
            /\ \A p \in DOMAIN s_dir :
                  \A i \in 1..Len(s_dir[p].by) : s_dir[p].by[i] # s_worker[w].local_rank

\* the ranks that have issued the data all-gather
InSecondRound == {w \in GRanks : g_worker[w].ncoll = 2}

\* C19: in the second round the tensor of every rank and every placeholder
\* have one shape, whose last dimension is max_size, the maximum of the
\* exchanged sizes, for every combination of local sizes.
C19_UniformShapes ==
    \A w \in InSecondRound :
        /\ LastDim(g_worker[w].tensor.shape) = SeqMax(g_worker[w].size_list)
        /\ LastDim(g_worker[w].placeholder_shape) = SeqMax(g_worker[w].size_list)
        /\ \A v \in InSecondRound :
              /\ g_worker[v].tensor.shape = g_worker[w].placeholder_shape
              /\ g_worker[v].placeholder_shape = g_worker[w].placeholder_shape

\* C20: with world_size > 1 and every rank scheduled fairly, every rank
\* issues the two collectives, the size all-gather and then the data
\* all-gather, and the call of every rank eventually returns.
C20_EveryCallReturns ==
    g_world_size > 1 =>
        <>(\A w \in GRanks : g_worker[w].pc = "done" /\ g_worker[w].ncoll = 2)

\* C18: every rank that returns from dist_sum holds s_0 + ... + s_{W-1}, the
\* same on every rank, and the local size of no rank is changed.
C18_SameSumEverywhere ==
    \A w \in DRanks :
        /\ d_worker[w].pc = "done" =>
              /\ d_worker[w].result = SeqSum([i \in 1..d_world_size |-> d_worker[i - 1].size])
              /\ \A v \in DRanks :
                    d_worker[v].pc = "done" => d_worker[v].result = d_worker[w].result
        /\ d_worker[w].tensor # NoCount => d_worker[w].tensor = d_worker[w].size

C18_Witness ==
    /\ d_world_size = 3
    /\ \A w \in DRanks : d_worker[w].pc = "done" /\ d_worker[w].result = 4
    /\ d_worker[0].size = 2 /\ d_worker[1].size = 0 /\ d_worker[2].size = 2

AllTrimmed == \A w \in TRanks : t_worker[w].pc = "done"

SetMax(S) == CHOOSE m \in S : \A x \in S : x <= m

RECURSIVE DroppedUpTo(_)
\* the number of ids ranks 0..r have lost
DroppedUpTo(r) ==
    IF r < 0 THEN 0
    ELSE DroppedUpTo(r - 1) + Len(t_worker[r].nids) - Len(t_worker[r].new_nids)

RECURSIVE ExcessUpTo(_)
\* the sum of local_count - min(local_count) over ranks 0..r
ExcessUpTo(r) ==
    IF r < 0 THEN 0
    ELSE ExcessUpTo(r - 1) + Len(t_worker[r].nids) - SetMin(LocalCounts)

SpliceAt(q, p, v) == SubSeq(q, 1, p) \o <<v>> \o SubSeq(q, p + 1, Len(q))

DropTail(q) == SubSeq(q, 1, Len(q) - 1)

\* C25: an insert with rank >= 1 leaves the values that stay in the list in
\* the order they had, removes at most one value, and the value it removes is
\* the tail of a full list, which is the value it returns; a rejected insert
\* and an insert into a list that is not full remove nothing.
C25_OrderKeptOnlyTailEvicted ==
    Inserted =>
        \/ /\ ~ins.insert_success
           /\ toplist = ins.before
        \/ /\ ins.insert_success
           /\ Len(ins.before) < top_k
           /\ ins.return_val = ins.val
           /\ \E p \in 0..Len(ins.before) : toplist = SpliceAt(ins.before, p, ins.val)
        \/ /\ ins.insert_success
           /\ Len(ins.before) = top_k
           /\ ins.return_val = ins.before[Len(ins.before)]
           /\ \E p \in 0..(Len(ins.before) - 1) :
                 toplist = SpliceAt(DropTail(ins.before), p, ins.val)

C25_Witness ==
    /\ Inserted /\ ins.insert_success /\ top_k = 3 /\ Len(ins.before) = 3
    /\ ins.rank = 2
    /\ ins.before[1] # ins.before[2] /\ ins.before[2] # ins.before[3]
    /\ ins.before[1] # ins.before[3]

IsBarrierOp(o) == o.op = "barrier"

IsBarrierStep(x) == x = "barrier"

IsSaveOrBarrier(x) == x \in {"emb_info", "barrier", "pred_save"}

IPastChecks(w) == i_worker[w].pc \in {"run", "barrier", "done"}

\* the order in which a rank that saves both has to save and synchronise
FullOrder == <<"emb_info", "barrier", "pred_save", "barrier">>

\* q is FullOrder with some of its saves left out
SavesLeftOut(q) ==
    \E keep_e \in BOOLEAN, keep_p \in BOOLEAN :
        q = (IF keep_e THEN <<"emb_info">> ELSE <<>>) \o <<"barrier">>
            \o (IF keep_p THEN <<"pred_save">> ELSE <<>>) \o <<"barrier">>

OptFilePresent == "optimizers.bin" \in DOMAIN c_files

\* C22: load_opt_state with one dense optimizer ends in the sparse-optimizer
\* error exactly when optimizers.bin holds a 'sparse' key and sparse_opts is
\* not empty; what save_opt_state writes has no 'sparse' key, and loading a
\* file with the one key 'dense' returns with the dense optimizer holding the
\* saved state.
C22_SparseErrorOnlyWithSparseKey ==
    /\ (c_call.fn = "load_opt_state" /\ Len(c_call.arg.dense) = 1) =>
          /\ c_call.status = "NotImplementedError" <=>
                /\ OptFilePresent
                /\ "sparse" \in DOMAIN c_files["optimizers.bin"]
                /\ Len(c_call.arg.sparse) > 0
          /\ (OptFilePresent /\ DOMAIN c_files["optimizers.bin"] = {"dense"}) =>
                /\ c_call.status = "returned"
                /\ c_call.ret = <<c_files["optimizers.bin"]["dense"]>>
    /\ (c_call.fn = "save_opt_state" /\ c_call.status = "returned") =>
          "sparse" \notin DOMAIN c_files["optimizers.bin"]

C22_Witness ==
    /\ c_call.fn = "load_opt_state" /\ c_call.status = "returned"
    /\ DOMAIN c_files["optimizers.bin"] = {"dense"}
    /\ Len(c_call.arg.sparse) > 0
    /\ c_call.ret # c_call.arg.dense

\* ---------------------------------------------------------- sparse embeddings

SparseBatched == e_call.idxs # <<>>

SparseFilePresent == SparsePath("n0") \in DOMAIN e_files

\* C21: the index batches of save_sparse_embeds and load_sparse_embeds have at
\* most batch_size indices each and, one after the other, are 0..num_embs-1;
\* the file save_sparse_embeds writes holds the table row for row, and when
\* load_sparse_embeds returns, row i of the table is row i of the file.
C21_BatchesCoverTable ==
    /\ SparseBatched =>
          /\ \A k \in 1..Len(e_call.idxs) : Len(e_call.idxs[k]) <= batch_size
          /\ CatRows(e_call.idxs) = arange(0, e_num_embs)
    /\ (e_call.fn = "save_sparse_embeds" /\ SparseBatched /\ e_call.pc = "returned") =>
          /\ SparseFilePresent
          /\ e_files[SparsePath("n0")] = e_table
    /\ (e_call.fn = "load_sparse_embeds" /\ SparseBatched) =>
          /\ e_call.pc # "error"
          /\ e_call.pc = "returned" =>
                /\ Len(e_table) = e_num_embs
                /\ e_table = e_files[SparsePath("n0")]

C21_Witness ==
    /\ e_call.fn = "load_sparse_embeds" /\ e_call.pc = "returned"
    /\ Len(e_call.idxs) = 2 /\ Len(e_call.idxs[2]) = 1
    /\ e_table = TableAt(1, e_num_embs)

====
